---- MODULE Spec2Model ----
(***************************************************************************)
(* Model of the userfaultfd snapshot/restore harness of djpeg.c:           *)
(* load_maps, remap, uffd_setup, the watcher thread uffd_monitor_thread,   *)
(* restore_pages and the iteration driver run().                           *)
(*                                                                         *)
(* Memory is an array of bytes grouped in pages.  The kernel side of       *)
(* userfaultfd is modelled by three pieces of state: the set wp of         *)
(* write-protected pages, the queue event of unread fault notifications,   *)
(* and blockedOn, the page the (single) driver/target thread sleeps on.    *)
(***************************************************************************)
EXTENDS Integers, Sequences, FiniteSets, TLC

(* ----------------------------- bounds ---------------------------------- *)
\* bytes per page in the model (the program uses 4096)
PageSize == 2
\* iterations of the driver loop (ITERS of bench.h)
ITERS == 2
\* stores the target performs in one invocation, at most
MaxWrites == 2
\* byte values 0 .. NVals-1
NVals == 2
\* capacity of the region table in the model (the program has maps[0x100])
MapCapacity == 3
\* capacity of the dirty-page log in the model (the program has pages[0x1000])
LogCapacity == 3
\* passes of the watcher's loop that end in continue, at most
MaxRetries == 1
\* descriptors stored past the end of the region table before the process
\* is killed, at most
MaxOverrun == 2
\* calls of the mmap() hook in a run, at most
MaxMmaps == 1
\* lines of a memory-map text given to the parser alone, at most
MaxLines == 2
\* iterations of the runs over different memory-map layouts
LayoutIters == 1

(* ------------------------ program constants ---------------------------- *)
\* sizeof(struct uffd_msg)
SizeofMsg == 32

NoAddr == -1

Vals == 0 .. (NVals - 1)

(* ------------------------- the address space --------------------------- *)
\* start of the .writeignored section (harness storage)
WRITE_IGNORED_ADDR == 4 * PageSize
\* start of the .remap section (raw-operation code)
REMAP_ADDR == 5 * PageSize
\* start of .got.plt
GOT_PLT_ADDR == 6 * PageSize

\* A line of /proc/self/maps: the two addresses, the permission field as its
\* four characters and the pathname (offset, device and inode are not used).
Line(from, to, perm, path) ==
  [addr_start |-> from, addr_end |-> to, perm |-> perm, pathname |-> path]

\* The lines of /proc/self/maps of the running program.
ProcMaps ==
  << Line(0,                  2 * PageSize, << "r", "w", "-", "p" >>, "djpeg"),
     Line(2 * PageSize,       3 * PageSize, << "-", "-", "-", "p" >>, ""),
     Line(3 * PageSize,       4 * PageSize, << "r", "w", "-", "p" >>, "[stack]"),
     Line(WRITE_IGNORED_ADDR, 5 * PageSize, << "r", "w", "-", "p" >>, "djpeg"),
     Line(REMAP_ADDR,         6 * PageSize, << "r", "-", "x", "p" >>, "djpeg"),
     Line(GOT_PLT_ADDR,       7 * PageSize, << "r", "w", "-", "p" >>, "djpeg") >>

\* a memory map with one more writable region, the heap
ProcMapsWide ==
  ProcMaps \o
  << Line(7 * PageSize, 8 * PageSize, << "r", "w", "-", "p" >>, "[heap]") >>

\* a memory map with the text and the constants of a shared library
ProcMapsMany ==
  ProcMaps \o
  << Line(7 * PageSize, 8 * PageSize, << "r", "-", "x", "p" >>, "libc.so"),
     Line(8 * PageSize, 9 * PageSize, << "r", "-", "-", "p" >>, "libc.so") >>

\* a memory map that ends with the kernel's pseudo-regions
ProcMapsPseudo ==
  ProcMaps \o
  << Line(7 * PageSize,  8 * PageSize,  << "r", "-", "-", "p" >>, "[vvar]"),
     Line(8 * PageSize,  9 * PageSize,  << "r", "-", "x", "p" >>, "[vdso]"),
     Line(10 * PageSize, 11 * PageSize, << "-", "-", "x", "p" >>, "[vsyscall]") >>

\* permission fields
PermRW == << "r", "w", "-", "p" >>
PermRO == << "r", "-", "-", "p" >>
PermNone == << "-", "-", "-", "p" >>

\* Memory maps of the program in different processes: the data region
\* writable or read-only, the region after it a guard or writable anonymous
\* memory, with or without the kernel's [vdso] at the end. The two sections of
\* the harness are where the build puts them, each a region of its own.
Layouts ==
  { << Line(0,            2 * PageSize, data, "djpeg"),
       Line(2 * PageSize, 3 * PageSize, anon, ""),
       ProcMaps[3], ProcMaps[4], ProcMaps[5], ProcMaps[6] >> \o tail :
      data \in {PermRW, PermRO}, anon \in {PermNone, PermRW},
      tail \in { << >>, << ProcMapsPseudo[8] >> } }

\* the scratch address of remap(), 0xdead0000
ScratchAddr == 11 * PageSize

Addrs == 0 .. (11 * PageSize - 1)

\* the page an address lies in, as the kernel sees it
KPage(a) == a - (a % PageSize)

\* variant: the fault address is used without masking
PageOfNoMask(a) == a

\* page_addr = msg.arg.pagefault.address & ~(PAGE_SIZE - 1)
PageOf(a) == a - (a % PageSize)

PageAddrs(p) == p .. (p + PageSize - 1)

RangePages(start, end) == { KPage(a) : a \in start .. (end - 1) }

\* variant: old_stack is an ordinary global in the monitored data region
OldStackAddrMonitored == ProcMaps[1].addr_start

\* where old_stack lives: section .writeignored
OldStackAddr == WRITE_IGNORED_ADDR

\* where times[] lives: harness storage that is not monitored
TimesAddr == WRITE_IGNORED_ADDR + 1

\* content of memory before the harness starts
InitMem == [a \in Addrs |-> a % NVals]

(* ------------------------------ state ---------------------------------- *)
VARIABLES
  pc,         \* position of the main thread in run()
  status,     \* exit status of the process once pc = "done"
  endedBy,    \* who ended the process: "run", "target" or "watcher"
  i,          \* loop counter of run()
  maps,       \* region table maps[0 .. n_maps-1]
  mem,        \* memory, a byte per address
  registered, \* pages registered with the userfaultfd
  wp,         \* pages currently write-protected
  event,      \* unread fault notification (faulting address) or NoAddr
  blockedOn,  \* page the main thread sleeps on after a fault, or NoAddr
  pend,       \* store <<addr, val>> of the target that faulted and is retried
  nw,         \* stores the target completed in the current invocation
  r,          \* loop counter of restore_pages()
  n_pages,    \* length of the dirty-page log
  pages,      \* the dirty-page log, records [addr, data]
  times,      \* timing results
  stdout,     \* where file descriptor 1 points
  lock,       \* uffd_ready_lock is held by the main thread
  wakeup,     \* a pthread_cond_signal has been delivered to the waiter
  wpc,        \* position of the watcher thread
  wi,         \* loop counter of the watcher's write-protect pass
  msg,        \* faulting address of the notification the watcher has read
  sp,         \* stack the main thread runs on
  old_stack,  \* the stack pointer saved in old_stack
  snap,       \* history: memory when the current iteration started
  dirtied,    \* history: pages the target stored to in any iteration
  written,    \* history: pages of the stores the target completed in this iteration
  procmaps,   \* the lines of /proc/self/maps, as descriptors
  iters,      \* the iteration count the program is built with
  start,      \* reading of the monotonic clock taken at the start of the iteration
  clock,      \* the monotonic clock: phases the driver has been through so far
  calls,      \* history: number of times target_main has been entered
  cause,      \* history: the system call result that ended the process
  retries,    \* history: passes of the watcher's loop that ended in continue
  nl,         \* the text of /proc/self/maps ends with a newline
  stores,     \* which regions the target's stores go to: "monitored" or "anywhere"
  fpos,       \* pmparser_parse: lines of the file consumed so far
  feof,       \* pmparser_parse: end-of-file indicator of the stream
  buf,        \* pmparser_parse: the line buffer
  list,       \* pmparser_parse: the nodes allocated so far, with their next links
  current,    \* maps_it->current: index of a node of list, 0 for NULL
  vma,        \* the address space: kind and protection of every page
  scratch,    \* bytes of the mapping at the scratch address, << >> if there is none
  ri,         \* loop counter i of remap()
  rj,         \* loop counter j of the copy loops of remap()
  rlog,       \* history: the operations remap() has performed on its current region
  mmaps,      \* history: calls of the mmap() hook so far
  hook,       \* history: arguments and results of the last call of the mmap() hook
  wsp,        \* stack the watcher thread runs on
  armed       \* history: content of a page when it was first write-protected

vars == << pc, status, endedBy, i, maps, mem, registered, wp, event,
           blockedOn, pend, nw, r, n_pages, pages, times, stdout, lock,
           wakeup, wpc, wi, msg, sp, old_stack, snap, dirtied, written,
           procmaps, iters, start, clock, calls, cause, retries,
           nl, stores, fpos, feof, buf, list, current, vma, scratch, ri, rj,
           rlog, mmaps, hook, wsp, armed >>

\* pmparser_parse and the iterator
parseVars == << fpos, feof, buf, list, current >>

\* remap() and the address space
remapVars == << vma, scratch, ri, rj, rlog >>

hookVars == << mmaps, hook >>

\* the inputs of the run and what the steps before the watcher starts work on
setupVars == << procmaps, nl, stores, parseVars, remapVars, hookVars >>

\* the main thread's data: what a step of the watcher that neither ends the
\* process nor wakes the main thread leaves alone
mainData == << i, maps, mem, registered, pend, nw, r, times, stdout, lock,
               sp, old_stack, snap, dirtied, written, setupVars, iters,
               start, clock, calls >>

mainVars == << pc, status, endedBy, blockedOn, mainData >>

watcherVars == << wpc, wi, msg, wsp, armed >>

\* what the main thread's steps leave alone unless they say otherwise
driverVars == << setupVars, iters, start, clock, calls >>

auxVars == << cause, retries >>

NoPend == << NoAddr, 0 >>

\* no system call has failed: << call, return value, errno or revents >>
NoCause == << "none", 0, "" >>

\* status of a process killed by SIGSEGV, 128 + 11
SegvStatus == 128 + 11

n_maps == Len(maps)

\* the content of a line buffer that has never been filled
NoLine == Line(NoAddr, NoAddr, << >>, "uninitialized")

\* what parsing a buffer that was never filled can yield
GarbageLines ==
  { Line(0, 0, << c, "-", "-", "-" >>, "") : c \in {"r", "-"} }

\* the node pmparser_parse fills from a line: the addresses, length, the
\* permission string rewritten as flags, and the pathname
Descriptor(line) ==
  [addr_start |-> line.addr_start,
   addr_end   |-> line.addr_end,
   length     |-> line.addr_end - line.addr_start,
   is_r       |-> line.perm[1] = "r",
   is_w       |-> line.perm[2] = "w",
   is_x       |-> line.perm[3] = "x",
   is_p       |-> line.perm[4] = "p",
   pathname   |-> line.pathname]

\* variant: only the .remap section is recognised
IgnoredSectionRemapOnly(m) == m.addr_start = REMAP_ADDR

\* cur_map->addr_start == (void *)REMAP_ADDR ||
\* cur_map->addr_start == (void *)WRITE_IGNORED_ADDR
IgnoredSection(m) ==
  m.addr_start = REMAP_ADDR \/ m.addr_start = WRITE_IGNORED_ADDR

\* variant: the filter without the test for .got.plt
MonitoredWithGotPlt(m) ==
  /\ ~IgnoredSection(m)
  /\ (m.is_r \/ m.is_w \/ m.is_x)
  /\ ~(m.pathname = "[vsyscall]" \/ m.pathname = "[vvar]" \/ m.pathname = "[vdso]")

\* the filter of load_maps: TRUE for a descriptor that is stored in maps
Monitored(m) ==
  /\ ~IgnoredSection(m)
  /\ (m.is_r \/ m.is_w \/ m.is_x)
  /\ ~(m.pathname = "[vsyscall]" \/ m.pathname = "[vvar]" \/ m.pathname = "[vdso]")
  /\ ~(m.addr_start = GOT_PLT_ADDR)

MapPages(m) == RangePages(m.addr_start, m.addr_end)

\* pages of the regions in the region table
MonitoredPages == UNION { MapPages(maps[j]) : j \in 1 .. n_maps }

MonitoredAddrs == UNION { PageAddrs(p) : p \in MonitoredPages }

\* memcpy(dst, src, PAGE_SIZE): the PAGE_SIZE bytes at page p
PageData(m, p) == [k \in 0 .. (PageSize - 1) |-> m[p + k]]

\* variant: the copy stops one byte before the end of the page
CopyPageShort(m, p, data) ==
  [a \in Addrs |-> IF a \in p .. (p + PageSize - 2) THEN data[a - p] ELSE m[a]]

\* memcpy((void *)addr, data, PAGE_SIZE)
CopyPage(m, p, data) ==
  [a \in Addrs |-> IF a \in PageAddrs(p) THEN data[a - p] ELSE m[a]]

\* pages[n] = rec
StoreRec(ps, n, rec) ==
  IF n < Len(ps) THEN [ps EXCEPT ![n + 1] = rec] ELSE Append(ps, rec)

LogAddrs == { pages[k].addr : k \in 1 .. n_pages }

Pages == { KPage(a) : a \in Addrs }

\* a page nothing is mapped at
NoVma == [kind |-> "none", prot |-> {}]

\* int prot = (is_r ? PROT_READ : 0) | (is_w ? PROT_WRITE : 0) | (is_x ? PROT_EXEC : 0)
ProtOf(m) ==
  (IF m.is_r THEN {"r"} ELSE {}) \cup (IF m.is_w THEN {"w"} ELSE {})
    \cup (IF m.is_x THEN {"x"} ELSE {})

\* the address space a memory-map text describes: the mappings the program
\* starts with, of whatever kind ("orig")
VmaOf(lines) ==
  [p \in Pages |->
     IF \E k \in 1 .. Len(lines) : p \in RangePages(lines[k].addr_start, lines[k].addr_end)
       THEN LET k == CHOOSE k \in 1 .. Len(lines) :
                       p \in RangePages(lines[k].addr_start, lines[k].addr_end)
            IN  [kind |-> "orig", prot |-> ProtOf(Descriptor(lines[k]))]
       ELSE NoVma]

\* the address space after a mapping of the given kind and protection has
\* been placed over [addr, addr + len)
MapAt(v, addr, len, kind, prot) ==
  [p \in Pages |->
     IF p \in RangePages(addr, addr + len) THEN [kind |-> kind, prot |-> prot]
     ELSE v[p]]

\* the address space after the protection of [addr, addr + len) has been set
ProtectAt(v, addr, len, prot) ==
  [p \in Pages |->
     IF p \in RangePages(addr, addr + len) THEN [v[p] EXCEPT !.prot = prot]
     ELSE v[p]]

\* the address space after [addr, addr + len) has been unmapped
UnmapAt(v, addr, len) ==
  [p \in Pages |-> IF p \in RangePages(addr, addr + len) THEN NoVma ELSE v[p]]

\* mmap's error return, (void *)-1
MAP_FAILED == 0 - 1

\* pages at which a mapping of len bytes fits in unmapped address space
FreeRuns(v, len) ==
  { p \in Pages : \A q \in RangePages(p, p + len) : q \in Pages /\ v[q].kind = "none" }

\* remap_mmap(addr, length, prot, flags, fd, offset): the address the mmap
\* system call returns.  With MAP_FIXED it is addr; without, the kernel places
\* the mapping in the highest gap that fits, and fails if there is none.
remap_mmap(v, req) ==
  IF "MAP_FIXED" \in req.flags THEN req.addr
  ELSE IF FreeRuns(v, req.length) = {} THEN MAP_FAILED
  ELSE CHOOSE p \in FreeRuns(v, req.length) : \A q \in FreeRuns(v, req.length) : q <= p

\* variant: the hook asks for the mapping at the address it was given
mmapFixed(v, req) ==
  LET passed == [req EXCEPT !.flags = @ \cup {"MAP_FIXED"}]
  IN  [passed |-> passed, returned |-> remap_mmap(v, passed)]

\* the hook: return remap_mmap(addr, length, prot, flags, fd, offset); what it
\* passes on and what it returns
mmap(v, req) ==
  LET passed == req
  IN  [passed |-> passed, returned |-> remap_mmap(v, passed)]

\* the mapping requests the target makes: one anonymous private page
MmapRequests ==
  { [addr |-> 0, length |-> PageSize, prot |-> {"r", "w"},
     flags |-> {"MAP_PRIVATE", "MAP_ANONYMOUS"}, fd |-> 0 - 1, offset |-> 0] }

\* no call of the hook yet
NoCall == [asked |-> << >>, passed |-> << >>, result |-> NoAddr, returned |-> NoAddr]

\* the protection remap_munmap leaves on a range: the call passes two
\* arguments to the system call it issues, whose third argument is whatever
\* the register holds
UndefinedProts == SUBSET {"r", "w", "x"}

\* the state after construction, for a given memory map and iteration count
InitFull(pm, newline, n, st) ==
  /\ procmaps = pm
  /\ nl = newline
  /\ stores = st
  /\ fpos = 0
  /\ feof = FALSE
  /\ buf = NoLine
  /\ list = << >>
  /\ current = 0
  /\ vma = VmaOf(pm)
  /\ scratch = << >>
  /\ ri = 0
  /\ rj = 0
  /\ rlog = << >>
  /\ mmaps = 0
  /\ hook = NoCall
  /\ wsp = "none"
  /\ armed = << >>
  /\ iters = n
  /\ pc = "load_maps"
  /\ status = 0
  /\ endedBy = "none"
  /\ i = 0
  /\ maps = << >>
  /\ mem = InitMem
  /\ registered = {}
  /\ wp = {}
  /\ event = NoAddr
  /\ blockedOn = NoAddr
  /\ pend = NoPend
  /\ nw = 0
  /\ r = 0
  /\ n_pages = 0
  /\ pages = << >>
  /\ times = [k \in 0 .. (n - 1) |-> << >>]
  /\ stdout = "inherited"
  /\ lock = FALSE
  /\ wakeup = FALSE
  /\ wpc = "none"
  /\ wi = 0
  /\ msg = NoAddr
  /\ sp = "main_stack"
  /\ old_stack = "process_stack"
  /\ snap = InitMem
  /\ dirtied = {}
  /\ written = << >>
  /\ start = 0
  /\ clock = << >>
  /\ calls = 0
  /\ cause = NoCause
  /\ retries = 0

\* the kernel ends every line of /proc/self/maps with a newline; the target
\* stores to the regions the harness monitors
InitWith(pm, n) == InitFull(pm, TRUE, n, "monitored")

\* the program built with ITERS iterations, or with none, on the usual map
Init == \E n \in {0, ITERS} : InitWith(ProcMaps, n)

\* the same program in a process with more regions or more writable pages
CapInit == \E pm \in {ProcMapsWide, ProcMapsMany} : InitWith(pm, ITERS)

MapInit == InitFull(ProcMapsPseudo, TRUE, ITERS, "anywhere")

\* the program with one iteration on any of the layouts
LayoutInit == \E pm \in Layouts : InitWith(pm, LayoutIters)

\* the lines the texts given to the parser alone are made of
TextLines == { ProcMaps[1], ProcMaps[2], ProcMaps[3] }

\* memory-map texts of at most n lines
Texts(n) == UNION { [1 .. k -> TextLines] : k \in 0 .. n }

\* any text, with or without a final newline, for the parser alone
ParseInit ==
  \E text \in Texts(MaxLines), newline \in BOOLEAN :
    InitFull(text, newline, 0, "monitored")

\* the main thread can take a step
Running == pc # "done" /\ blockedOn = NoAddr

\* the process ends with the given status
Exit(code, who) ==
  /\ pc' = "done"
  /\ status' = code
  /\ endedBy' = who

(* --------------------------- the main thread --------------------------- *)
kernelVars == << wp, event >>
logVars == << n_pages, pages >>

\* pmparser_parse(-1): fopen("/proc/self/maps") succeeds
ParseOpen ==
  /\ Running /\ pc = "load_maps"
  /\ pc' = "parse"
  /\ UNCHANGED << status, endedBy, cause, maps >>
  /\ UNCHANGED << procmaps, nl, stores, parseVars, remapVars, hookVars >>
  /\ UNCHANGED << i, mem, registered, blockedOn, pend, nw, r,
                  times, stdout, lock, wakeup, snap, written, sp, old_stack, dirtied >>
  /\ UNCHANGED << kernelVars, logVars, watcherVars >>
  /\ UNCHANGED << iters, start, clock, calls, retries >>

\* load_maps(): fopen of the memory map fails, pmparser_parse returns NULL,
\* load_maps returns -1 and run() returns 1; main() does restore_old_stack()
LoadMapsFail ==
  /\ Running /\ pc = "load_maps"
  /\ Exit(1, "run")
  /\ cause' = << "fopen", 0, "ENOENT" >>
  /\ sp' = old_stack
  /\ UNCHANGED << maps, setupVars >>
  /\ UNCHANGED << i, mem, registered, blockedOn, pend, nw, r,
                  times, stdout, lock, wakeup, snap, written, old_stack, dirtied >>
  /\ UNCHANGED << kernelVars, logVars, watcherVars >>
  /\ UNCHANGED << iters, start, clock, calls, retries >>

\* the list after node tmp has been attached: the first node is made the head
\* and the current node, then current_node->next = tmp; current_node = tmp
Attach(nodes, tmp) ==
  IF Len(nodes) = 0
    THEN << [tmp EXCEPT !.next = 1] >>
    ELSE Append([nodes EXCEPT ![Len(nodes)].next = Len(nodes) + 1], tmp)

\* one pass of while(!feof(file)): fgets() fills buf with the next line, or
\* leaves it as it is and sets the end-of-file indicator when nothing is left;
\* its result is not looked at.  A node is allocated, filled from buf and
\* attached.  Parsing a buffer that was never filled is undefined: the node
\* gets some content or the process is killed.
ParseLine ==
  /\ Running /\ pc = "parse" /\ ~feof
  /\ LET more == fpos < Len(procmaps)
     IN  /\ fpos' = IF more THEN fpos + 1 ELSE fpos
         /\ feof' = IF more THEN (fpos + 1 = Len(procmaps) /\ ~nl) ELSE TRUE
         /\ buf' = IF more THEN procmaps[fpos + 1] ELSE buf
  /\ \/ /\ buf' # NoLine
        /\ list' = Attach(list, [d |-> Descriptor(buf'), next |-> 0])
        /\ UNCHANGED << pc, status, endedBy, cause >>
     \/ /\ buf' = NoLine
        /\ \E g \in GarbageLines :
             list' = Attach(list, [d |-> Descriptor(g), next |-> 0])
        /\ UNCHANGED << pc, status, endedBy, cause >>
     \/ /\ buf' = NoLine
        /\ Exit(SegvStatus, "signal")
        /\ cause' = << "_pmparser_split_line", 0, "SIGSEGV" >>
        /\ UNCHANGED list
  /\ UNCHANGED maps
  /\ UNCHANGED << procmaps, nl, stores, current, remapVars, hookVars >>
  /\ UNCHANGED << i, mem, registered, blockedOn, pend, nw, r,
                  times, stdout, lock, wakeup, snap, written, sp, old_stack, dirtied >>
  /\ UNCHANGED << kernelVars, logVars, watcherVars >>
  /\ UNCHANGED << iters, start, clock, calls, retries >>

\* the loop ends: fclose(file); maps_it->head = maps_it->current = list_maps
ParseClose ==
  /\ Running /\ pc = "parse" /\ feof
  /\ current' = IF Len(list) = 0 THEN 0 ELSE 1
  /\ pc' = "pmparser_next"
  /\ UNCHANGED << status, endedBy, cause, maps >>
  /\ UNCHANGED << procmaps, nl, stores, fpos, feof, buf, list, remapVars, hookVars >>
  /\ UNCHANGED << i, mem, registered, blockedOn, pend, nw, r,
                  times, stdout, lock, wakeup, snap, written, sp, old_stack, dirtied >>
  /\ UNCHANGED << kernelVars, logVars, watcherVars >>
  /\ UNCHANGED << iters, start, clock, calls, retries >>

\* pmparser_next(): the current node is returned and the iterator moves to
\* its next link
pmparser_next(nodes, cur) == [node |-> nodes[cur].d, current |-> nodes[cur].next]

\* one pass of the loop of load_maps(): the descriptor pmparser_next() returns
\* is skipped by the filter or stored, maps[n_maps] = *cur_map; n_maps++, and
\* n_maps is not compared with the capacity of the table.  A store past the
\* end of the table is undefined: the descriptor lands in the storage that
\* follows the table and the loop goes on, or the process is killed.
LoadMapsStep ==
  /\ Running /\ pc = "pmparser_next" /\ current # 0
  /\ LET it == pmparser_next(list, current)
         cur_map == it.node
     IN  \/ /\ ~Monitored(cur_map)
            /\ current' = it.current
            /\ UNCHANGED << maps, pc, status, endedBy, cause >>
         \/ /\ Monitored(cur_map)
            /\ n_maps < MapCapacity + MaxOverrun
            /\ maps' = Append(maps, cur_map)
            /\ current' = it.current
            /\ UNCHANGED << pc, status, endedBy, cause >>
         \/ /\ Monitored(cur_map)
            /\ n_maps >= MapCapacity
            /\ Exit(SegvStatus, "signal")
            /\ cause' = << "maps[n_maps]", MapCapacity, "SIGSEGV" >>
            /\ UNCHANGED << maps, current >>
  /\ UNCHANGED << procmaps, nl, stores, fpos, feof, buf, list, remapVars, hookVars >>
  /\ UNCHANGED << i, mem, registered, blockedOn, pend, nw, r,
                  times, stdout, lock, wakeup, snap, written, sp, old_stack, dirtied >>
  /\ UNCHANGED << kernelVars, logVars, watcherVars >>
  /\ UNCHANGED << iters, start, clock, calls, retries >>

\* pmparser_next() returns NULL: pmparser_free(maps_it); return 0
LoadMapsOk ==
  /\ Running /\ pc = "pmparser_next" /\ current = 0
  /\ list' = << >>
  /\ pc' = "remap"
  /\ UNCHANGED << status, endedBy, cause, maps >>
  /\ UNCHANGED << procmaps, nl, stores, fpos, feof, buf, current, remapVars, hookVars >>
  /\ UNCHANGED << i, mem, registered, blockedOn, pend, nw, r,
                  times, stdout, lock, wakeup, snap, written, sp, old_stack, dirtied >>
  /\ UNCHANGED << kernelVars, logVars, watcherVars >>
  /\ UNCHANGED << iters, start, clock, calls, retries >>

\* the region remap() is working on
RemapMap == maps[ri + 1]

\* i < n_maps: the scratch mapping is created, remap_mmap((void *)0xdead0000,
\* cur_map->length, PROT_READ|PROT_WRITE, MAP_PRIVATE|MAP_ANONYMOUS|MAP_FIXED, -1, 0);
\* its pages are zero, what was mapped beyond them stays
RemapMapTmp ==
  /\ Running /\ pc = "remap" /\ ri < n_maps
  /\ LET len == RemapMap.length
         top == IF Len(scratch) > len THEN Len(scratch) ELSE len
     IN  scratch' = [k \in 1 .. top |-> IF k <= len THEN 0 ELSE scratch[k]]
  /\ rj' = 0
  /\ rlog' = << "mmap_tmp" >>
  /\ pc' = "copy_out"
  /\ UNCHANGED << status, endedBy, cause, maps, mem >>
  /\ UNCHANGED << procmaps, nl, stores, parseVars, vma, ri, hookVars >>
  /\ UNCHANGED << i, registered, blockedOn, pend, nw, r,
                  times, stdout, lock, wakeup, snap, written, sp, old_stack, dirtied >>
  /\ UNCHANGED << kernelVars, logVars, watcherVars >>
  /\ UNCHANGED << iters, start, clock, calls, retries >>

\* tmp[j] = *((uint8_t *)(cur_map->addr_start) + j)
RemapCopyOut ==
  /\ Running /\ pc = "copy_out" /\ rj < RemapMap.length
  /\ scratch' = [scratch EXCEPT ![rj + 1] = mem[RemapMap.addr_start + rj]]
  /\ rj' = rj + 1
  /\ rlog' = IF rj = 0 THEN Append(rlog, "copy_out") ELSE rlog
  /\ UNCHANGED << pc, status, endedBy, cause, maps, mem >>
  /\ UNCHANGED << procmaps, nl, stores, parseVars, vma, ri, hookVars >>
  /\ UNCHANGED << i, registered, blockedOn, pend, nw, r,
                  times, stdout, lock, wakeup, snap, written, sp, old_stack, dirtied >>
  /\ UNCHANGED << kernelVars, logVars, watcherVars >>
  /\ UNCHANGED << iters, start, clock, calls, retries >>

\* variant: the original is unmapped after the first byte has been copied
RemapUnmapOrigEarly ==
  /\ Running /\ pc = "copy_out" /\ rj >= 1
  /\ \/ \E prot \in UndefinedProts :
          vma' = ProtectAt(vma, RemapMap.addr_start, RemapMap.length, prot)
     \/ UNCHANGED vma
  /\ rlog' = Append(rlog, "munmap_orig")
  /\ pc' = "map_new"
  /\ UNCHANGED << status, endedBy, cause, maps, mem >>
  /\ UNCHANGED << procmaps, nl, stores, parseVars, scratch, ri, rj, hookVars >>
  /\ UNCHANGED << i, registered, blockedOn, pend, nw, r,
                  times, stdout, lock, wakeup, snap, written, sp, old_stack, dirtied >>
  /\ UNCHANGED << kernelVars, logVars, watcherVars >>
  /\ UNCHANGED << iters, start, clock, calls, retries >>

\* the copy loop ends; remap_munmap(cur_map->addr_start, cur_map->length).
\* remap_munmap issues __NR_mprotect with two arguments: the range stays
\* mapped, and its protection becomes what the third argument register
\* happens to hold, or the call fails and nothing changes.
RemapUnmapOrig ==
  /\ Running /\ pc = "copy_out" /\ ~(rj < RemapMap.length)
  /\ \/ \E prot \in UndefinedProts :
          vma' = ProtectAt(vma, RemapMap.addr_start, RemapMap.length, prot)
     \/ UNCHANGED vma
  /\ rlog' = Append(rlog, "munmap_orig")
  /\ pc' = "map_new"
  /\ UNCHANGED << status, endedBy, cause, maps, mem >>
  /\ UNCHANGED << procmaps, nl, stores, parseVars, scratch, ri, rj, hookVars >>
  /\ UNCHANGED << i, registered, blockedOn, pend, nw, r,
                  times, stdout, lock, wakeup, snap, written, sp, old_stack, dirtied >>
  /\ UNCHANGED << kernelVars, logVars, watcherVars >>
  /\ UNCHANGED << iters, start, clock, calls, retries >>

\* remap_mmap(cur_map->addr_start, cur_map->addr_end - cur_map->addr_start,
\* PROT_READ|PROT_WRITE, MAP_PRIVATE|MAP_ANONYMOUS|MAP_FIXED, -1, 0): what was
\* mapped in the range is replaced by zero pages
RemapMapNew ==
  /\ Running /\ pc = "map_new"
  /\ LET len == RemapMap.addr_end - RemapMap.addr_start
         req == [addr |-> RemapMap.addr_start, length |-> len, prot |-> {"r", "w"},
                 flags |-> {"MAP_PRIVATE", "MAP_ANONYMOUS", "MAP_FIXED"},
                 fd |-> 0 - 1, offset |-> 0]
         new == remap_mmap(vma, req)
     IN  /\ vma' = MapAt(vma, new, len, "anon", {"r", "w"})
         /\ mem' = [a \in Addrs |-> IF a \in new .. (new + len - 1) THEN 0 ELSE mem[a]]
  /\ rj' = 0
  /\ rlog' = Append(rlog, "mmap_new")
  /\ pc' = "copy_in"
  /\ UNCHANGED << status, endedBy, cause, maps >>
  /\ UNCHANGED << procmaps, nl, stores, parseVars, scratch, ri, hookVars >>
  /\ UNCHANGED << i, registered, blockedOn, pend, nw, r,
                  times, stdout, lock, wakeup, snap, written, sp, old_stack, dirtied >>
  /\ UNCHANGED << kernelVars, logVars, watcherVars >>
  /\ UNCHANGED << iters, start, clock, calls, retries >>

\* variant: the new mapping is left as it was created, without the copy back
RemapCopyInSkipped ==
  /\ Running /\ pc = "copy_in" /\ rj < RemapMap.length
  /\ rj' = rj + 1
  /\ rlog' = IF rj = 0 THEN Append(rlog, "copy_in") ELSE rlog
  /\ UNCHANGED << pc, status, endedBy, cause, maps, mem >>
  /\ UNCHANGED << procmaps, nl, stores, parseVars, vma, scratch, ri, hookVars >>
  /\ UNCHANGED << i, registered, blockedOn, pend, nw, r,
                  times, stdout, lock, wakeup, snap, written, sp, old_stack, dirtied >>
  /\ UNCHANGED << kernelVars, logVars, watcherVars >>
  /\ UNCHANGED << iters, start, clock, calls, retries >>

\* new[j] = tmp[j]
RemapCopyIn ==
  /\ Running /\ pc = "copy_in" /\ rj < RemapMap.length
  /\ mem' = [mem EXCEPT ![RemapMap.addr_start + rj] = scratch[rj + 1]]
  /\ rj' = rj + 1
  /\ rlog' = IF rj = 0 THEN Append(rlog, "copy_in") ELSE rlog
  /\ UNCHANGED << pc, status, endedBy, cause, maps >>
  /\ UNCHANGED << procmaps, nl, stores, parseVars, vma, scratch, ri, hookVars >>
  /\ UNCHANGED << i, registered, blockedOn, pend, nw, r,
                  times, stdout, lock, wakeup, snap, written, sp, old_stack, dirtied >>
  /\ UNCHANGED << kernelVars, logVars, watcherVars >>
  /\ UNCHANGED << iters, start, clock, calls, retries >>

\* the copy loop ends; remap_munmap((void *)0xdead0000, cur_map->length): as
\* above the scratch range stays mapped (its protection, which nothing reads
\* afterwards, is not kept in the state)
RemapUnmapTmp ==
  /\ Running /\ pc = "copy_in" /\ ~(rj < RemapMap.length)
  /\ rlog' = Append(rlog, "munmap_tmp")
  /\ pc' = "mprotect"
  /\ UNCHANGED << status, endedBy, cause, maps, mem >>
  /\ UNCHANGED << procmaps, nl, stores, parseVars, vma, scratch, ri, rj, hookVars >>
  /\ UNCHANGED << i, registered, blockedOn, pend, nw, r,
                  times, stdout, lock, wakeup, snap, written, sp, old_stack, dirtied >>
  /\ UNCHANGED << kernelVars, logVars, watcherVars >>
  /\ UNCHANGED << iters, start, clock, calls, retries >>

\* remap_mprotect(cur_map->addr_start, cur_map->addr_end - cur_map->addr_start, prot); i++
RemapProtect ==
  /\ Running /\ pc = "mprotect"
  /\ vma' = ProtectAt(vma, RemapMap.addr_start,
                      RemapMap.addr_end - RemapMap.addr_start, ProtOf(RemapMap))
  /\ ri' = ri + 1
  /\ rlog' = Append(rlog, "mprotect")
  /\ pc' = "remap"
  /\ UNCHANGED << status, endedBy, cause, maps, mem >>
  /\ UNCHANGED << procmaps, nl, stores, parseVars, scratch, rj, hookVars >>
  /\ UNCHANGED << i, registered, blockedOn, pend, nw, r,
                  times, stdout, lock, wakeup, snap, written, sp, old_stack, dirtied >>
  /\ UNCHANGED << kernelVars, logVars, watcherVars >>
  /\ UNCHANGED << iters, start, clock, calls, retries >>

\* i >= n_maps: remap() returns
RemapReturn ==
  /\ Running /\ pc = "remap" /\ ~(ri < n_maps)
  /\ pc' = "uffd_setup"
  /\ UNCHANGED << status, endedBy, cause, maps, mem, setupVars >>
  /\ UNCHANGED << i, registered, blockedOn, pend, nw, r,
                  times, stdout, lock, wakeup, snap, written, sp, old_stack, dirtied >>
  /\ UNCHANGED << kernelVars, logVars, watcherVars >>
  /\ UNCHANGED << iters, start, clock, calls, retries >>

\* uffd_setup(): handshake, then UFFDIO_REGISTER of every region
UffdSetupOk ==
  /\ Running /\ pc = "uffd_setup"
  /\ registered' = MonitoredPages
  /\ pc' = "pthread_create"
  /\ UNCHANGED << status, endedBy, i, maps, mem, blockedOn, pend, nw, r,
                  times, stdout, lock, wakeup, snap, written, sp, old_stack, dirtied >>
  /\ UNCHANGED << kernelVars, logVars, watcherVars >>
  /\ UNCHANGED << driverVars, auxVars >>

\* the ways uffd_setup() fails before it registers a region: userfaultfd()
\* fails, the UFFDIO_API ioctl fails, it returns another api, or the features
\* lack UFFD_FEATURE_PAGEFAULT_FLAG_WP
HandshakeFailures ==
  { << "userfaultfd", -1, "ENOSYS" >>, << "UFFDIO_API", -1, "EINVAL" >>,
    << "UFFDIO_API", 0, "api" >>, << "UFFDIO_API", 0, "features" >> }

\* uffd_setup() returns 0, run() returns 1 and main() does
\* restore_old_stack(): the handshake fails, or
\* UFFDIO_REGISTER fails for region maps[k] after the regions before it have
\* been registered
UffdSetupFail ==
  /\ Running /\ pc = "uffd_setup"
  /\ \/ /\ cause' \in HandshakeFailures
        /\ UNCHANGED registered
     \/ \E k \in 0 .. (n_maps - 1) :
          /\ cause' = << "UFFDIO_REGISTER", -1, "EINVAL" >>
          /\ registered' = UNION { MapPages(maps[j]) : j \in 1 .. k }
  /\ Exit(1, "run")
  /\ sp' = old_stack
  /\ UNCHANGED << i, maps, mem, blockedOn, pend, nw, r,
                  times, stdout, lock, wakeup, snap, written, old_stack, dirtied >>
  /\ UNCHANGED << kernelVars, logVars, watcherVars >>
  /\ UNCHANGED << driverVars, retries >>

\* pthread_create(&uffd_thread, NULL, uffd_monitor_thread, &uffd): the new
\* thread starts on the stack pthread_create gave it
PthreadCreate ==
  /\ Running /\ pc = "pthread_create"
  /\ wpc' = "start"
  /\ wsp' = "pthread_stack"
  /\ pc' = "mutex_lock"
  /\ UNCHANGED << status, endedBy, i, maps, mem, registered, blockedOn, pend,
                  nw, r, times, stdout, lock, wakeup, snap, written, wi, msg,
                  sp, old_stack, dirtied, armed >>
  /\ UNCHANGED << kernelVars, logVars >>
  /\ UNCHANGED << driverVars, auxVars >>

\* pthread_mutex_lock(&uffd_ready_lock)
MutexLock ==
  /\ Running /\ pc = "mutex_lock"
  /\ lock' = TRUE
  /\ pc' = "cond_wait"
  /\ UNCHANGED << status, endedBy, i, maps, mem, registered, blockedOn, pend,
                  nw, r, times, stdout, wakeup, snap, written, sp, old_stack, dirtied >>
  /\ UNCHANGED << kernelVars, logVars, watcherVars >>
  /\ UNCHANGED << driverVars, auxVars >>

\* pthread_cond_wait: the mutex is released and the thread becomes a waiter
CondWait ==
  /\ Running /\ pc = "cond_wait"
  /\ lock' = FALSE
  /\ pc' = "waiting"
  /\ UNCHANGED << status, endedBy, i, maps, mem, registered, blockedOn, pend,
                  nw, r, times, stdout, wakeup, snap, written, sp, old_stack, dirtied >>
  /\ UNCHANGED << kernelVars, logVars, watcherVars >>
  /\ UNCHANGED << driverVars, auxVars >>

\* pthread_cond_wait returns after the signal
CondWake ==
  /\ Running /\ pc = "waiting" /\ wakeup
  /\ wakeup' = FALSE
  /\ lock' = TRUE
  /\ pc' = "redirect_stdout"
  /\ UNCHANGED << status, endedBy, i, maps, mem, registered, blockedOn, pend,
                  nw, r, times, stdout, snap, written, sp, old_stack, dirtied >>
  /\ UNCHANGED << kernelVars, logVars, watcherVars >>
  /\ UNCHANGED << driverVars, auxVars >>

\* pthread_cond_wait returns without a signal (spurious wakeup); run() does
\* not re-check any predicate
SpuriousWakeup ==
  /\ Running /\ pc = "waiting" /\ ~wakeup
  /\ lock' = TRUE
  /\ pc' = "redirect_stdout"
  /\ UNCHANGED << status, endedBy, i, maps, mem, registered, blockedOn, pend,
                  nw, r, times, stdout, wakeup, snap, written, sp, old_stack, dirtied >>
  /\ UNCHANGED << kernelVars, logVars, watcherVars >>
  /\ UNCHANGED << driverVars, auxVars >>

\* redirect_stdout()
RedirectStdout ==
  /\ Running /\ pc = "redirect_stdout"
  /\ stdout' = "redirected"
  /\ pc' = "setaffinity"
  /\ UNCHANGED << status, endedBy, i, maps, mem, registered, blockedOn, pend,
                  nw, r, times, lock, wakeup, snap, written, sp, old_stack, dirtied >>
  /\ UNCHANGED << kernelVars, logVars, watcherVars >>
  /\ UNCHANGED << driverVars, auxVars >>

\* setaffinity(3)
SetAffinity ==
  /\ Running /\ pc = "setaffinity"
  /\ pc' = "loop"
  /\ UNCHANGED << status, endedBy, i, maps, mem, registered, blockedOn, pend,
                  nw, r, times, stdout, lock, wakeup, snap, written, sp, old_stack, dirtied >>
  /\ UNCHANGED << kernelVars, logVars, watcherVars >>
  /\ UNCHANGED << driverVars, auxVars >>

\* variant: the loop test is i <= ITERS
LoopEnterOnceMore ==
  /\ Running /\ pc = "loop" /\ i <= iters
  /\ start' = Len(clock)
  /\ snap' = mem
  /\ written' = << >>
  /\ nw' = 0
  /\ pc' = "swap_in"
  /\ UNCHANGED << status, endedBy, i, maps, mem, registered, blockedOn, pend,
                  r, times, stdout, lock, wakeup, sp, old_stack, dirtied >>
  /\ UNCHANGED << kernelVars, logVars, watcherVars >>
  /\ UNCHANGED << setupVars, iters, clock, calls, auxVars >>

\* i < ITERS; clock_gettime(CLOCK_MONOTONIC, &start)
LoopEnter ==
  /\ Running /\ pc = "loop" /\ i < iters
  /\ start' = Len(clock)
  /\ snap' = mem
  /\ written' = << >>
  /\ nw' = 0
  /\ pc' = "swap_in"
  /\ UNCHANGED << status, endedBy, i, maps, mem, registered, blockedOn, pend,
                  r, times, stdout, lock, wakeup, sp, old_stack, dirtied >>
  /\ UNCHANGED << kernelVars, logVars, watcherVars >>
  /\ UNCHANGED << setupVars, iters, clock, calls, auxVars >>

\* the loop ends: i >= ITERS
LoopExit ==
  /\ Running /\ pc = "loop" /\ ~(i < iters)
  /\ pc' = "dup2"
  /\ UNCHANGED << status, endedBy, i, maps, mem, registered, blockedOn, pend,
                  nw, r, times, stdout, lock, wakeup, snap, written, sp, old_stack, dirtied >>
  /\ UNCHANGED << kernelVars, logVars, watcherVars >>
  /\ UNCHANGED << driverVars, auxVars >>

\* variant: the start timestamp is taken after the pivot
SwapInThenStart ==
  /\ Running /\ pc = "swap_in"
  /\ IF KPage(OldStackAddr) \in wp
       THEN /\ blockedOn' = KPage(OldStackAddr)
            /\ event' = OldStackAddr
            /\ UNCHANGED << pc, sp, old_stack, clock, start >>
       ELSE /\ old_stack' = sp
            /\ sp' = old_stack
            /\ clock' = Append(clock, "pivot_in")
            /\ start' = Len(clock')
            /\ pc' = "call"
            /\ UNCHANGED << blockedOn, event >>
  /\ UNCHANGED << status, endedBy, i, maps, mem, registered, pend, nw, r,
                  times, stdout, lock, wakeup, snap, written, dirtied, wp >>
  /\ UNCHANGED << logVars, watcherVars >>
  /\ UNCHANGED << setupVars, iters, calls, auxVars >>

\* swap_old_stack() before the call: tmp = old_stack; old_stack = sp; sp = tmp.
\* The store to old_stack faults like any other if its page is protected.
SwapIn ==
  /\ Running /\ pc = "swap_in"
  /\ IF KPage(OldStackAddr) \in wp
       THEN /\ blockedOn' = KPage(OldStackAddr)
            /\ event' = OldStackAddr
            /\ UNCHANGED << pc, sp, old_stack, clock >>
       ELSE /\ old_stack' = sp
            /\ sp' = old_stack
            /\ clock' = Append(clock, "pivot_in")
            /\ pc' = "call"
            /\ UNCHANGED << blockedOn, event >>
  /\ UNCHANGED << status, endedBy, i, maps, mem, registered, pend, nw, r,
                  times, stdout, lock, wakeup, snap, written, dirtied, wp >>
  /\ UNCHANGED << logVars, watcherVars >>
  /\ UNCHANGED << setupVars, iters, start, calls, auxVars >>

\* variant: the inherited stream is put back when the target is entered
CallTargetUnredirected ==
  /\ Running /\ pc = "call"
  /\ pc' = "target"
  /\ calls' = calls + 1
  /\ clock' = Append(clock, "target")
  /\ stdout' = "inherited"
  /\ UNCHANGED << status, endedBy, i, maps, mem, registered, blockedOn, pend,
                  nw, r, times, lock, wakeup, snap, written, sp, old_stack, dirtied >>
  /\ UNCHANGED << kernelVars, logVars, watcherVars >>
  /\ UNCHANGED << setupVars, iters, start, auxVars >>

\* target_main(argc, argv) is entered
CallTarget ==
  /\ Running /\ pc = "call"
  /\ pc' = "target"
  /\ calls' = calls + 1
  /\ clock' = Append(clock, "target")
  /\ UNCHANGED << status, endedBy, i, maps, mem, registered, blockedOn, pend,
                  nw, r, times, stdout, lock, wakeup, snap, written, sp, old_stack, dirtied >>
  /\ UNCHANGED << kernelVars, logVars, watcherVars >>
  /\ UNCHANGED << setupVars, iters, start, auxVars >>

\* pages of the harness's own sections, .writeignored and .remap
HarnessPages == { KPage(WRITE_IGNORED_ADDR), KPage(REMAP_ADDR) }

\* addresses the target stores to: every byte of the writable monitored
\* regions, or (for a target that also works in memory the harness does not
\* monitor) the first byte of every writable page that is not the harness's own
TargetAddrs ==
  IF stores = "monitored"
    THEN UNION { maps[j].addr_start .. (maps[j].addr_end - 1) :
                   j \in { k \in 1 .. n_maps : maps[k].is_w } }
    ELSE { p \in Pages : "w" \in vma[p].prot /\ p \notin HarnessPages }

\* statuses target_main passes to exit(): EXIT_SUCCESS, EXIT_FAILURE, EXIT_WARNING
TargetExitCodes == {0, 1, 2}

\* A store of the target to a monitored address.  On a write-protected page
\* the thread faults: a notification is queued, the thread sleeps and retries
\* the same store once it is woken.
TargetWrite(a, v) ==
  /\ Running /\ pc = "target" /\ nw < MaxWrites
  /\ pend = NoPend \/ pend = << a, v >>
  /\ IF KPage(a) \in wp
       THEN /\ blockedOn' = KPage(a)
            /\ event' = a
            /\ pend' = << a, v >>
            /\ UNCHANGED << mem, nw, written, dirtied >>
       ELSE /\ mem' = [mem EXCEPT ![a] = v]
            /\ nw' = nw + 1
            /\ written' = Append(written, KPage(a))
            /\ dirtied' = dirtied \cup {KPage(a)}
            /\ pend' = NoPend
            /\ UNCHANGED << blockedOn, event >>
  /\ UNCHANGED << pc, status, endedBy, i, maps, registered, r, times, stdout,
                  lock, wakeup, snap, wp, sp, old_stack >>
  /\ UNCHANGED << logVars, watcherVars >>
  /\ UNCHANGED << driverVars, auxVars >>

\* the target (or a library it uses) calls mmap(): the hook passes the request
\* to remap_mmap and returns its result; no table of the harness is touched
TargetMmap ==
  /\ Running /\ pc = "target" /\ pend = NoPend /\ mmaps < MaxMmaps
  /\ \E req \in MmapRequests :
       LET call == mmap(vma, req)
           ret == call.returned
       IN  /\ hook' = [asked |-> req, passed |-> call.passed,
                       result |-> remap_mmap(vma, call.passed), returned |-> ret]
           /\ vma' = IF ret = MAP_FAILED THEN vma
                     ELSE MapAt(vma, ret, call.passed.length, "anon", call.passed.prot)
           /\ mem' = [a \in Addrs |->
                        IF ret # MAP_FAILED /\ a \in ret .. (ret + req.length - 1)
                          THEN 0 ELSE mem[a]]
  /\ mmaps' = mmaps + 1
  /\ UNCHANGED << pc, status, endedBy, i, maps, registered, blockedOn, pend,
                  nw, r, times, stdout, lock, wakeup, snap, written, sp, old_stack, dirtied >>
  /\ UNCHANGED << kernelVars, logVars, watcherVars >>
  /\ UNCHANGED << procmaps, nl, stores, parseVars, scratch, ri, rj, rlog >>
  /\ UNCHANGED << iters, start, clock, calls, auxVars >>

\* target_main returns to run(): the return statement that follows the call
\* of exit(); run() is written for an entry point that returns, it goes on to
\* swap_old_stack() and restore_pages()
TargetReturn ==
  /\ Running /\ pc = "target" /\ pend = NoPend
  /\ pc' = "swap_out"
  /\ UNCHANGED << status, endedBy, i, maps, mem, registered, blockedOn, pend,
                  nw, r, times, stdout, lock, wakeup, snap, written, sp, old_stack, dirtied >>
  /\ UNCHANGED << kernelVars, logVars, watcherVars >>
  /\ UNCHANGED << driverVars, auxVars >>

\* target_main calls exit(), as its last statement or on one of its error
\* paths: the process ends inside the target
TargetExit ==
  /\ Running /\ pc = "target" /\ pend = NoPend
  /\ \E code \in TargetExitCodes : Exit(code, "target")
  /\ UNCHANGED << i, maps, mem, registered, blockedOn, pend, nw, r,
                  times, stdout, lock, wakeup, snap, written, sp, old_stack, dirtied >>
  /\ UNCHANGED << kernelVars, logVars, watcherVars >>
  /\ UNCHANGED << driverVars, auxVars >>

\* variant: the second pivot loads the saved stack pointer without saving
\* the current one
SwapOutNoSave ==
  /\ Running /\ pc = "swap_out"
  /\ IF KPage(OldStackAddr) \in wp
       THEN /\ blockedOn' = KPage(OldStackAddr)
            /\ event' = OldStackAddr
            /\ UNCHANGED << pc, sp, old_stack, r, clock >>
       ELSE /\ sp' = old_stack
            /\ r' = 0
            /\ clock' = Append(clock, "pivot_out")
            /\ pc' = "restore"
            /\ UNCHANGED << blockedOn, event, old_stack >>
  /\ UNCHANGED << status, endedBy, i, maps, mem, registered, pend, nw,
                  times, stdout, lock, wakeup, snap, written, dirtied, wp >>
  /\ UNCHANGED << logVars, watcherVars >>
  /\ UNCHANGED << setupVars, iters, start, calls, auxVars >>

\* swap_old_stack() after the call; restore_pages() is entered
SwapOut ==
  /\ Running /\ pc = "swap_out"
  /\ IF KPage(OldStackAddr) \in wp
       THEN /\ blockedOn' = KPage(OldStackAddr)
            /\ event' = OldStackAddr
            /\ UNCHANGED << pc, sp, old_stack, r, clock >>
       ELSE /\ old_stack' = sp
            /\ sp' = old_stack
            /\ r' = 0
            /\ clock' = Append(clock, "pivot_out")
            /\ pc' = "restore"
            /\ UNCHANGED << blockedOn, event >>
  /\ UNCHANGED << status, endedBy, i, maps, mem, registered, pend, nw,
                  times, stdout, lock, wakeup, snap, written, dirtied, wp >>
  /\ UNCHANGED << logVars, watcherVars >>
  /\ UNCHANGED << setupVars, iters, start, calls, auxVars >>

\* variant: restore_pages() write-protects each page again after copying it
RestoreStepRearm ==
  /\ Running /\ pc = "restore" /\ r < n_pages
  /\ LET cur_page == pages[r + 1]
     IN  IF KPage(cur_page.addr) \in wp
           THEN /\ blockedOn' = KPage(cur_page.addr)
                /\ event' = cur_page.addr
                /\ UNCHANGED << mem, r, wp >>
           ELSE /\ mem' = CopyPage(mem, cur_page.addr, cur_page.data)
                /\ r' = r + 1
                /\ wp' = wp \cup {KPage(cur_page.addr)}
                /\ UNCHANGED << blockedOn, event >>
  /\ UNCHANGED << pc, status, endedBy, i, maps, registered, pend, nw, times,
                  stdout, lock, wakeup, snap, written, sp, old_stack, dirtied >>
  /\ UNCHANGED << logVars, watcherVars >>
  /\ UNCHANGED << driverVars, auxVars >>

\* restore_pages(): memcpy((void *)cur_page->addr, cur_page->data, PAGE_SIZE)
\* for record r; the store faults like any other if the page is protected
RestoreStep ==
  /\ Running /\ pc = "restore" /\ r < n_pages
  /\ LET cur_page == pages[r + 1]
     IN  IF KPage(cur_page.addr) \in wp
           THEN /\ blockedOn' = KPage(cur_page.addr)
                /\ event' = cur_page.addr
                /\ UNCHANGED << mem, r >>
           ELSE /\ mem' = CopyPage(mem, cur_page.addr, cur_page.data)
                /\ r' = r + 1
                /\ UNCHANGED << blockedOn, event >>
  /\ UNCHANGED << pc, status, endedBy, i, maps, registered, pend, nw, times,
                  stdout, lock, wakeup, snap, written, wp, sp, old_stack, dirtied >>
  /\ UNCHANGED << logVars, watcherVars >>
  /\ UNCHANGED << driverVars, auxVars >>

\* variant: restore_pages() clears the log before it returns
RestoreDoneClears ==
  /\ Running /\ pc = "restore" /\ ~(r < n_pages)
  /\ n_pages' = 0
  /\ clock' = Append(clock, "restore")
  /\ pc' = "clock_end"
  /\ UNCHANGED << status, endedBy, i, maps, mem, registered, blockedOn, pend,
                  nw, r, times, stdout, lock, wakeup, snap, written, sp,
                  old_stack, dirtied, pages >>
  /\ UNCHANGED << kernelVars, watcherVars >>
  /\ UNCHANGED << setupVars, iters, start, calls, auxVars >>

\* restore_pages() returns: i >= n_pages
RestoreDone ==
  /\ Running /\ pc = "restore" /\ ~(r < n_pages)
  /\ clock' = Append(clock, "restore")
  /\ pc' = "clock_end"
  /\ UNCHANGED << status, endedBy, i, maps, mem, registered, blockedOn, pend,
                  nw, r, times, stdout, lock, wakeup, snap, written, sp, old_stack, dirtied >>
  /\ UNCHANGED << kernelVars, logVars, watcherVars >>
  /\ UNCHANGED << setupVars, iters, start, calls, auxVars >>

\* timespecDiff(&end, &start): what the clock has gone through between the
\* two readings
timespecDiff(end, begin) == SubSeq(clock, begin + 1, end)

\* variant: every result is stored in the first entry
StoreTimeFirstEntry ==
  /\ Running /\ pc = "clock_end"
  /\ IF KPage(TimesAddr) \in wp
       THEN /\ blockedOn' = KPage(TimesAddr)
            /\ event' = TimesAddr
            /\ UNCHANGED << pc, times, i >>
       ELSE /\ LET end == Len(clock)
               IN  times' = [times EXCEPT ![0] = timespecDiff(end, start)]
            /\ i' = i + 1
            /\ pc' = "loop"
            /\ UNCHANGED << blockedOn, event >>
  /\ UNCHANGED << status, endedBy, maps, mem, registered, pend, nw, r,
                  stdout, lock, wakeup, snap, written, sp, old_stack,
                  dirtied, wp >>
  /\ UNCHANGED << logVars, watcherVars >>
  /\ UNCHANGED << driverVars, auxVars >>

\* clock_gettime(CLOCK_MONOTONIC, &end); times[i] = timespecDiff(&end, &start); i++
StoreTime ==
  /\ Running /\ pc = "clock_end"
  /\ IF KPage(TimesAddr) \in wp
       THEN /\ blockedOn' = KPage(TimesAddr)
            /\ event' = TimesAddr
            /\ UNCHANGED << pc, times, i >>
       ELSE /\ LET end == Len(clock)
               IN  times' = [times EXCEPT ![i] = timespecDiff(end, start)]
            /\ i' = i + 1
            /\ pc' = "loop"
            /\ UNCHANGED << blockedOn, event >>
  /\ UNCHANGED << status, endedBy, maps, mem, registered, pend, nw, r,
                  stdout, lock, wakeup, snap, written, sp, old_stack,
                  dirtied, wp >>
  /\ UNCHANGED << logVars, watcherVars >>
  /\ UNCHANGED << driverVars, auxVars >>

\* dup2(stdout_fd, STDOUT_FILENO)
Dup2 ==
  /\ Running /\ pc = "dup2"
  /\ stdout' = "inherited"
  /\ pc' = "report_times"
  /\ UNCHANGED << status, endedBy, i, maps, mem, registered, blockedOn, pend,
                  nw, r, times, lock, wakeup, snap, written, sp, old_stack, dirtied >>
  /\ UNCHANGED << kernelVars, logVars, watcherVars >>
  /\ UNCHANGED << driverVars, auxVars >>

\* report_times()
ReportTimes ==
  /\ Running /\ pc = "report_times"
  /\ pc' = "return"
  /\ UNCHANGED << status, endedBy, i, maps, mem, registered, blockedOn, pend,
                  nw, r, times, stdout, lock, wakeup, snap, written, sp, old_stack, dirtied >>
  /\ UNCHANGED << kernelVars, logVars, watcherVars >>
  /\ UNCHANGED << driverVars, auxVars >>

\* run() returns 0; main() does restore_old_stack() and returns it
RunReturn ==
  /\ Running /\ pc = "return"
  /\ Exit(0, "run")
  /\ sp' = old_stack
  /\ UNCHANGED << i, maps, mem, registered, blockedOn, pend, nw, r,
                  times, stdout, lock, wakeup, snap, written, old_stack, dirtied >>
  /\ UNCHANGED << kernelVars, logVars, watcherVars >>
  /\ UNCHANGED << driverVars, auxVars >>

(* ----------------------------- the watcher ----------------------------- *)
WatcherAlive == pc # "done"

\* the process ends in the watcher through _exit(code), after the system call
\* result why
WatcherExit(code, why) ==
  /\ Exit(code, "watcher")
  /\ cause' = why
  /\ UNCHANGED << mainData, blockedOn, kernelVars, logVars, watcherVars,
                  wakeup, retries >>

\* variant: the watcher moves to the driver's stack
WatcherSwitchToMainStack ==
  /\ WatcherAlive /\ wpc = "start"
  /\ wsp' = "main_stack"
  /\ wi' = 0
  /\ wpc' = "wp_pass"
  /\ UNCHANGED << mainVars, kernelVars, logVars, wakeup, msg, armed >>
  /\ UNCHANGED auxVars

\* switch_uffd_handler_stack(): sp = &uffd_handler_stack[0xf000]
WatcherSwitchStack ==
  /\ WatcherAlive /\ wpc = "start"
  /\ wsp' = "uffd_handler_stack"
  /\ wi' = 0
  /\ wpc' = "wp_pass"
  /\ UNCHANGED << mainVars, kernelVars, logVars, wakeup, msg, armed >>
  /\ UNCHANGED auxVars

\* ioctl(uffd, UFFDIO_WRITEPROTECT, &wp) with MODE_WP over region maps[wi]
WatcherProtect ==
  /\ WatcherAlive /\ wpc = "wp_pass" /\ wi < n_maps
  /\ wp' = wp \cup MapPages(maps[wi + 1])
  /\ wi' = wi + 1
  /\ armed' = [p \in DOMAIN armed \cup MapPages(maps[wi + 1]) |->
                 IF p \in DOMAIN armed THEN armed[p] ELSE PageData(mem, p)]
  /\ UNCHANGED << mainVars, logVars, event, wakeup, wpc, msg, wsp >>
  /\ UNCHANGED auxVars

\* that ioctl fails: _exit(1)
WatcherProtectFail ==
  /\ WatcherAlive /\ wpc = "wp_pass" /\ wi < n_maps
  /\ WatcherExit(1, << "UFFDIO_WRITEPROTECT", -1, "MODE_WP" >>)

\* pthread_cond_signal(&uffd_ready): wakes the main thread if it is waiting,
\* and has no effect otherwise
WatcherSignal ==
  /\ WatcherAlive /\ wpc = "wp_pass" /\ ~(wi < n_maps)
  /\ wakeup' = (wakeup \/ pc = "waiting")
  /\ wpc' = "poll"
  /\ UNCHANGED << mainVars, kernelVars, logVars, wi, msg, wsp, armed >>
  /\ UNCHANGED auxVars

\* what poll(pollfd, 1, -1) can report: << return value, revents >>
PollResults ==
  { << -1, {} >>, << 0, {} >>, << 1, {"POLLHUP"} >>, << 1, {"POLLIN"} >>,
    << 1, {"POLLERR"} >>, << 1, {"POLLIN", "POLLERR"} >> }

\* the branch the loop takes after poll(): the switch on pollres and the two
\* tests of revents
PollBranch(pollres, revents) ==
  IF pollres = -1 THEN "continue"
  ELSE IF pollres = 0 THEN "continue"
  ELSE IF "POLLERR" \in revents THEN "_exit(2)"
  ELSE IF ~("POLLIN" \in revents) THEN "continue"
  ELSE "read"

\* what read(uffd, &msg, sizeof(msg)) can report: << return value, errno >>
ReadResults ==
  { << -1, "EAGAIN" >>, << -1, "EINTR" >>, << -1, "EIO" >>,
    << 0, "" >>, << SizeofMsg - 1, "" >>, << SizeofMsg, "" >> }

\* variant: an interrupted read is retried as well
ReadBranchRetriesEintr(readret, errno) ==
  IF readret = -1
    THEN IF errno = "EAGAIN" \/ errno = "EINTR" THEN "continue" ELSE "_exit(3)"
    ELSE IF readret # SizeofMsg THEN "_exit(4)" ELSE "record"

\* the branch the loop takes after read()
ReadBranch(readret, errno) ==
  IF readret = -1
    THEN IF errno = "EAGAIN" THEN "continue" ELSE "_exit(3)"
    ELSE IF readret # SizeofMsg THEN "_exit(4)" ELSE "record"

\* poll() reports a readable descriptor: a notification is queued
WatcherPoll ==
  /\ WatcherAlive /\ wpc = "poll" /\ event # NoAddr
  /\ PollBranch(1, {"POLLIN"}) = "read"
  /\ wpc' = "read"
  /\ UNCHANGED << mainVars, kernelVars, logVars, wakeup, wi, msg, wsp, armed >>
  /\ UNCHANGED auxVars

\* poll() returns -1 or 0, or revents lacks POLLIN: continue
WatcherPollRetry ==
  /\ WatcherAlive /\ wpc = "poll" /\ retries < MaxRetries
  /\ \E res \in PollResults :
       /\ "POLLIN" \in res[2] => event # NoAddr
       /\ PollBranch(res[1], res[2]) = "continue"
  /\ retries' = retries + 1
  /\ UNCHANGED << mainVars, kernelVars, logVars, watcherVars, wakeup, cause >>

\* revents has POLLERR: _exit(2)
WatcherPollErr ==
  /\ WatcherAlive /\ wpc = "poll"
  /\ \E res \in PollResults :
       /\ "POLLIN" \in res[2] => event # NoAddr
       /\ PollBranch(res[1], res[2]) = "_exit(2)"
       /\ WatcherExit(2, << "poll", res[1], "POLLERR" >>)

\* variant: the trap is released as soon as the notification is read, before
\* the page is recorded
WatcherReadWakesFirst ==
  /\ WatcherAlive /\ wpc = "read" /\ event # NoAddr
  /\ msg' = event
  /\ event' = NoAddr
  /\ wp' = wp \ {PageOf(event)}
  /\ blockedOn' = IF blockedOn = PageOf(event) THEN NoAddr ELSE blockedOn
  /\ wpc' = "record"
  /\ UNCHANGED << pc, status, endedBy, mainData, logVars, wakeup, wi, wsp, armed >>
  /\ UNCHANGED auxVars

\* read(uffd, &msg, sizeof(msg)) returns a full record
WatcherRead ==
  /\ WatcherAlive /\ wpc = "read" /\ event # NoAddr
  /\ ReadBranch(SizeofMsg, "") = "record"
  /\ msg' = event
  /\ event' = NoAddr
  /\ wpc' = "record"
  /\ UNCHANGED << mainVars, logVars, wp, wakeup, wi, wsp, armed >>
  /\ UNCHANGED auxVars

\* read() returns -1 with EAGAIN: continue
WatcherReadAgain ==
  /\ WatcherAlive /\ wpc = "read" /\ retries < MaxRetries
  /\ \E res \in ReadResults : ReadBranch(res[1], res[2]) = "continue"
  /\ retries' = retries + 1
  /\ wpc' = "poll"
  /\ UNCHANGED << mainVars, kernelVars, logVars, wakeup, wi, msg, wsp, armed, cause >>

\* read() returns -1 with another errno (_exit(3)) or a short record (_exit(4))
WatcherReadFail ==
  /\ WatcherAlive /\ wpc = "read"
  /\ \E res \in ReadResults :
       LET branch == ReadBranch(res[1], res[2])
       IN  /\ branch \in {"_exit(3)", "_exit(4)"}
           /\ WatcherExit(IF branch = "_exit(3)" THEN 3 ELSE 4,
                          << "read", res[1], res[2] >>)

\* variant: the trap is released where the page should be recorded
WatcherRecordReleases ==
  /\ WatcherAlive /\ wpc = "record"
  /\ LET page_addr == PageOf(msg)
     IN  /\ wp' = wp \ {page_addr}
         /\ blockedOn' = IF blockedOn = page_addr THEN NoAddr ELSE blockedOn
  /\ wpc' = "unlock"
  /\ UNCHANGED << pc, status, endedBy, mainData, logVars, event, wakeup, wi, msg, wsp, armed >>
  /\ UNCHANGED auxVars

\* pages[n_pages].addr = page_addr; memcpy(pages[n_pages].data, page_addr,
\* PAGE_SIZE); n_pages++, and n_pages is not compared with the capacity of
\* the log.  A store past the end of the log is undefined: the record lands in
\* the storage that follows the log and the watcher goes on, or the process
\* is killed.
WatcherRecord ==
  /\ WatcherAlive /\ wpc = "record"
  /\ LET page_addr == PageOf(msg)
     IN  \/ /\ pages' = StoreRec(pages, n_pages,
                                 [addr |-> page_addr,
                                  data |-> PageData(mem, page_addr)])
            /\ n_pages' = n_pages + 1
            /\ wpc' = "unlock"
            /\ UNCHANGED << pc, status, endedBy, cause >>
         \/ /\ n_pages >= LogCapacity
            /\ Exit(SegvStatus, "signal")
            /\ cause' = << "pages[n_pages]", n_pages, "SIGSEGV" >>
            /\ UNCHANGED << logVars, wpc >>
  /\ UNCHANGED << mainData, blockedOn, kernelVars, wakeup, wi, msg, wsp, armed, retries >>

\* variant: the protection of the whole region of the page is removed
WatcherUnlockRegion ==
  /\ WatcherAlive /\ wpc = "unlock"
  /\ LET page_addr == PageOf(msg)
         region == UNION { MapPages(maps[j]) :
                             j \in { k \in 1 .. n_maps : page_addr \in MapPages(maps[k]) } }
     IN  /\ wp' = wp \ region
         /\ blockedOn' = IF blockedOn = page_addr THEN NoAddr ELSE blockedOn
  /\ wpc' = "poll"
  /\ UNCHANGED << pc, status, endedBy, mainData, logVars, event, wakeup, wi, msg, wsp, armed >>
  /\ UNCHANGED auxVars

\* ioctl(uffd, UFFDIO_WRITEPROTECT, &wp) with mode 0 over the page: the
\* protection is removed and a thread sleeping on the page is woken
WatcherUnlock ==
  /\ WatcherAlive /\ wpc = "unlock"
  /\ LET page_addr == PageOf(msg)
     IN  /\ wp' = wp \ {page_addr}
         /\ blockedOn' = IF blockedOn = page_addr THEN NoAddr ELSE blockedOn
  /\ wpc' = "poll"
  /\ UNCHANGED << pc, status, endedBy, mainData, logVars, event, wakeup, wi, msg, wsp, armed >>
  /\ UNCHANGED auxVars

\* variant: the result of the ioctl is not looked at
WatcherUnlockFailIgnored ==
  /\ WatcherAlive /\ wpc = "unlock"
  /\ cause' = << "UFFDIO_WRITEPROTECT", -1, "0" >>
  /\ wpc' = "poll"
  /\ UNCHANGED << mainVars, kernelVars, logVars, wakeup, wi, msg, wsp, armed, retries >>

\* that ioctl fails: _exit(5)
WatcherUnlockFail ==
  /\ WatcherAlive /\ wpc = "unlock"
  /\ WatcherExit(5, << "UFFDIO_WRITEPROTECT", -1, "0" >>)

(* --------------------------- specification ----------------------------- *)
\* load_maps(): pmparser_parse, the loop over pmparser_next, pmparser_free
LoadNext ==
  \/ ParseOpen \/ LoadMapsFail \/ ParseLine \/ ParseClose
  \/ LoadMapsStep \/ LoadMapsOk

\* remap()
RemapNext ==
  \/ RemapMapTmp \/ RemapCopyOut \/ RemapUnmapOrig \/ RemapMapNew
  \/ RemapCopyIn \/ RemapUnmapTmp \/ RemapProtect \/ RemapReturn

MainNext ==
  \/ LoadNext \/ RemapNext \/ UffdSetupOk \/ UffdSetupFail
  \/ PthreadCreate \/ MutexLock \/ CondWait \/ CondWake
  \/ RedirectStdout \/ SetAffinity \/ LoopEnter \/ LoopExit
  \/ SwapIn \/ CallTarget
  \/ \E a \in TargetAddrs, v \in Vals : TargetWrite(a, v)
  \/ TargetReturn \/ TargetExit
  \/ SwapOut \/ RestoreStep \/ RestoreDone \/ StoreTime
  \/ Dup2 \/ ReportTimes \/ RunReturn

WatcherNext ==
  \/ WatcherSwitchStack \/ WatcherProtect \/ WatcherSignal \/ WatcherPoll
  \/ WatcherRead \/ WatcherRecord \/ WatcherUnlock

\* steps the environment may or may not take
EnvNext ==
  \/ SpuriousWakeup
  \/ WatcherProtectFail \/ WatcherPollRetry \/ WatcherPollErr
  \/ WatcherReadAgain \/ WatcherReadFail \/ WatcherUnlockFail

\* the program with a target that makes no mapping request
Next == MainNext \/ WatcherNext \/ EnvNext

\* the program with a target that calls mmap()
MapNext == Next \/ TargetMmap

Spec == Init /\ [][Next]_vars

\* both threads are scheduled; failures and spurious wakeups are not owed
FairSpec == Spec /\ WF_vars(MainNext) /\ WF_vars(WatcherNext)

\* the program in a process whose memory map reaches the fixed capacities
CapSpec == CapInit /\ [][Next]_vars

\* the program in a process with the kernel's pseudo-regions, running a
\* target that calls mmap() and stores to memory the harness does not monitor
\* as well
MapSpec == MapInit /\ [][MapNext]_vars

\* load_maps() alone, on every memory-map text of at most MaxLines lines
ParseSpec == ParseInit /\ [][LoadNext]_vars

\* the whole program on different memory-map layouts
LayoutSpec == LayoutInit /\ [][Next]_vars

TypeOK ==
  /\ pc \in {"load_maps", "parse", "pmparser_next", "remap", "copy_out",
             "map_new", "copy_in", "mprotect", "uffd_setup", "pthread_create", "mutex_lock",
             "cond_wait", "waiting", "redirect_stdout", "setaffinity", "loop",
             "swap_in", "call", "target", "swap_out", "restore", "clock_end",
             "dup2", "report_times", "return", "done"}
  /\ wpc \in {"none", "start", "wp_pass", "poll", "read", "record", "unlock"}
  /\ i \in 0 .. iters
  /\ n_pages \in Nat
  /\ wp \subseteq registered

(* ------------------------------ claims --------------------------------- *)
\* number of stores to page p among the stores of this iteration
Count(seq, p) == Cardinality({ k \in 1 .. Len(seq) : seq[k] = p })

\* indices of the records of page p in the log
RecordsOf(p) == { k \in 1 .. n_pages : pages[k].addr = p }

\* pages of the regions the watcher's pass has write-protected so far
ArmedPages == UNION { MapPages(maps[j]) : j \in 1 .. wi }

\* the page of the store the target is blocked in or about to retry
PendingPages == IF pend = NoPend THEN {} ELSE { KPage(pend[1]) }

\* C1: after target_main has run and restore_pages() has returned, every byte
\* of every monitored region equals its value immediately before the
\* iteration, provided the log stays below its capacity.
C1_Original ==
  (pc = "clock_end" /\ n_pages < LogCapacity)
    => \A a \in MonitoredAddrs : mem[a] = snap[a]

\* C2 (as stated): after restore_pages() completes the log is empty.
C2_Original == pc = "clock_end" => n_pages = 0

\* C2 (amended): restore_pages() leaves the dirty-page log as it is; neither
\* n_pages nor any record changes from its entry to its return.
C2_LogKept == [][pc = "restore" => (n_pages' = n_pages /\ pages' = pages)]_vars

C2_Witness == pc = "clock_end" /\ n_pages > 0 /\ r = n_pages

C4_Original ==
  /\ \A p \in MonitoredPages : Cardinality(RecordsOf(p)) <= 1
  /\ pc = "clock_end" =>
       \A p \in MonitoredPages :
         Count(written, p) >= 2 =>
           /\ Cardinality(RecordsOf(p)) = 1
           /\ \A k \in RecordsOf(p) : pages[k].data = PageData(snap, p)
           /\ PageData(mem, p) = PageData(snap, p)

C7_Original == (wpc = "poll") ~> (pc \notin {"mutex_lock", "cond_wait", "waiting"})

\* C8: the main thread does not leave its readiness wait while a monitored
\* region is still unprotected.
C8_Original == pc = "redirect_stdout" => MonitoredPages \subseteq wp

C10_Original == endedBy # "target"

\* the phases of one iteration, in the order run() goes through them
Phases == << "pivot_in", "target", "pivot_out", "restore" >>

\* run() is in its teardown, or has returned from it
InTeardown ==
  \/ pc \in {"dup2", "report_times", "return"}
  \/ pc = "done" /\ endedBy = "run" /\ status = 0

\* C11: the driver goes through pivot-in, target invocation, pivot-out and
\* restore in that order, again and again, so an invocation never starts
\* before the restore of the iteration before it has returned; it never
\* starts more than ITERS iterations, and the teardown (stdout restored,
\* results reported) is reached only after exactly ITERS complete iterations.
C11_IterationOrder ==
  /\ \A k \in 1 .. Len(clock) : clock[k] = Phases[((k - 1) % 4) + 1]
  /\ Len(clock) <= 4 * iters
  /\ calls <= iters
  /\ InTeardown => (Len(clock) = 4 * iters /\ calls = iters /\ i = iters)
  /\ (pc \in {"loop", "swap_in", "call", "target", "swap_out", "restore",
              "clock_end"}) => stdout = "redirected"

C11_Witness ==
  pc = "done" /\ endedBy = "run" /\ status = 0 /\ iters = ITERS
    /\ calls = ITERS /\ stdout = "inherited"

C13_Original ==
  (iters = 0 /\ pc = "pthread_create")
    ~> (pc = "done" /\ calls = 0 /\ times = << >>
          /\ (endedBy = "run" => status = 0))

SetupFailures ==
  HandshakeFailures \cup
  { << "fopen", 0, "ENOENT" >>, << "UFFDIO_REGISTER", -1, "EINVAL" >>,
    << "UFFDIO_WRITEPROTECT", -1, "MODE_WP" >> }

\* C15: when setup fails the harness ends with a non-zero status and
\* target_main has not been invoked.
C15_Original ==
  cause \in SetupFailures => (pc = "done" /\ status # 0 /\ calls = 0)

\* a short notification record has been read, or the release of a trap failed
RuntimeFatal ==
  \/ cause[1] = "read" /\ cause[2] # -1 /\ cause[2] # SizeofMsg
  \/ cause = << "UFFDIO_WRITEPROTECT", -1, "0" >>

\* C16: a short notification record or a failed release of a trap ends the
\* whole process at once with a non-zero status: no step of the target, of
\* the restore or of the watcher follows.
C16_FatalEndsProcess ==
  /\ [](RuntimeFatal => (pc = "done" /\ endedBy = "watcher" /\ status \in {4, 5}))
  /\ [][~RuntimeFatal]_vars

C16_Witness ==
  RuntimeFatal /\ pc = "done" /\ status = 5 /\ calls >= 1 /\ pend # NoPend

\* C17 (as stated): no transient result of the wait or the read, an
\* interrupted read included, ends the process.
C17_Original ==
  ~(pc = "done" /\ cause \in { << "read", -1, "EINTR" >>, << "read", -1, "EAGAIN" >> })

\* C17 (amended): the watcher loops back to the wait exactly when poll
\* returns -1 or 0 or reports neither POLLERR nor POLLIN, or when read fails
\* with EAGAIN; such a pass leaves the process running, the log and the
\* traps as they are.  A read that fails in another way, an interrupted read
\* included, ends the process with status 3, and POLLERR with status 2.
C17_RetryOrFatal ==
  /\ [](/\ \A res \in PollResults :
             /\ (PollBranch(res[1], res[2]) = "continue")
                  <=> (res[1] \in {-1, 0} \/ res[2] \cap {"POLLERR", "POLLIN"} = {})
             /\ (PollBranch(res[1], res[2]) = "_exit(2)")
                  <=> (res[1] = 1 /\ "POLLERR" \in res[2])
        /\ \A res \in ReadResults :
             /\ (ReadBranch(res[1], res[2]) = "continue") <=> (res = << -1, "EAGAIN" >>)
             /\ (ReadBranch(res[1], res[2]) = "_exit(3)")
                  <=> (res[1] = -1 /\ res[2] # "EAGAIN")
        /\ (cause[1] = "read" /\ cause[2] = -1) => (pc = "done" /\ status = 3)
        /\ cause[1] = "poll" => (pc = "done" /\ status = 2))
  /\ [][retries' # retries =>
          /\ pc # "done" /\ pc' = pc
          /\ n_pages' = n_pages /\ pages' = pages
          /\ wp' = wp /\ blockedOn' = blockedOn
          /\ wpc' = "poll"]_vars

C17_Witness ==
  retries = 1 /\ wpc = "poll" /\ pc = "target" /\ blockedOn # NoAddr
    /\ event # NoAddr

\* C18: when run() has returned from its teardown no region is registered
\* with the userfaultfd any more.
C18_Original ==
  (pc = "done" /\ endedBy = "run" /\ status = 0) => registered = {}

\* C19: load_maps() never stores a descriptor past the capacity of the
\* region table; with more regions than the table holds it fails instead.
C19_Original ==
  /\ n_maps <= MapCapacity
  /\ (/\ Len(SelectSeq([k \in 1 .. Len(procmaps) |-> Descriptor(procmaps[k])],
                         Monitored)) > MapCapacity
      /\ pc \notin {"load_maps", "parse", "pmparser_next"})
       => (pc = "done" /\ status # 0)

\* C20: the watcher never stores a record past the capacity of the
\* dirty-page log; with the log full it fails instead.
C20_Original ==
  /\ n_pages <= LogCapacity
  /\ Len(pages) <= LogCapacity

\* the memory-map lines the exclusion rules of load_maps() name
ExcludedLine(line) ==
  \/ line.perm[1] # "r" /\ line.perm[2] # "w" /\ line.perm[3] # "x"
  \/ line.pathname \in {"[vsyscall]", "[vvar]", "[vdso]"}
  \/ line.addr_start \in {REMAP_ADDR, WRITE_IGNORED_ADDR, GOT_PLT_ADDR}

\* pages of the excluded lines of the memory map
ExcludedPages ==
  UNION { RangePages(procmaps[k].addr_start, procmaps[k].addr_end) :
            k \in { n \in 1 .. Len(procmaps) : ExcludedLine(procmaps[n]) } }

\* C21: no descriptor of the region table lacks all three permissions, is
\* named [vsyscall], [vvar] or [vdso], or starts at REMAP_ADDR,
\* WRITE_IGNORED_ADDR or GOT_PLT_ADDR; no record of the dirty-page log is of a
\* page of such a region, whatever the target stores there.
C21_ExcludedNeverLogged ==
  /\ \A j \in 1 .. n_maps :
       /\ maps[j].is_r \/ maps[j].is_w \/ maps[j].is_x
       /\ maps[j].pathname \notin {"[vsyscall]", "[vvar]", "[vdso]"}
       /\ maps[j].addr_start \notin {REMAP_ADDR, WRITE_IGNORED_ADDR, GOT_PLT_ADDR}
  /\ MonitoredPages \cap ExcludedPages = {}
  /\ \A k \in 1 .. Len(pages) : pages[k].addr \notin ExcludedPages

\* the target has stored to .got.plt and to a monitored page, the fault of
\* the latter has been logged and the iteration is over
C21_Witness ==
  /\ KPage(GOT_PLT_ADDR) \in dirtied
  /\ mem[GOT_PLT_ADDR] # InitMem[GOT_PLT_ADDR]
  /\ n_pages > 0
  /\ i = 1 /\ pc = "loop"

InRemapBody == pc \in {"copy_out", "map_new", "copy_in", "mprotect"}

\* remap() has returned
RemapReturned ==
  pc \notin {"load_maps", "parse", "pmparser_next", "remap"} /\ ~InRemapBody
    /\ ri = n_maps

\* C23: once remap() is through with a region, its range is an anonymous
\* private mapping with the region's original r/w/x bits; when remap()
\* returns, every byte of every monitored region is what it was before.
C23_RemapPreserves ==
  /\ \A j \in 1 .. ri : \A p \in MapPages(maps[j]) :
       /\ vma[p].kind = "anon"
       /\ vma[p].prot = VmaOf(procmaps)[p].prot
  /\ (pc \in {"remap", "uffd_setup"} \/ InRemapBody) =>
       \A j \in 1 .. ri :
         \A a \in maps[j].addr_start .. (maps[j].addr_end - 1) : mem[a] = InitMem[a]

\* remap() has returned after two regions, one of them with a nonzero byte
C23_Witness ==
  /\ pc = "uffd_setup" /\ ri = n_maps /\ n_maps = 2
  /\ \E a \in MonitoredAddrs : mem[a] # 0

\* the operations of remap() on one region, in the order of the source
RemapOrder ==
  << "mmap_tmp", "copy_out", "munmap_orig", "mmap_new", "copy_in",
     "munmap_tmp", "mprotect" >>

\* C24: for each region remap() goes through its operations in the order
\* scratch mapping, copy-out, remap_munmap of the original, new mapping at
\* the original address, copy-in, remap_munmap of the scratch, mprotect; until
\* the copy-out is complete the original mapping is what it was, and from
\* then on the scratch holds every byte of the region.
C24_RemapOrder ==
  /\ Len(rlog) <= Len(RemapOrder)
  /\ rlog = SubSeq(RemapOrder, 1, Len(rlog))
  /\ (pc = "copy_out" /\ rj < RemapMap.length) =>
       \A p \in MapPages(RemapMap) : vma[p] = VmaOf(procmaps)[p]
  /\ (InRemapBody /\ Len(rlog) >= 3) =>
       \A k \in 0 .. (RemapMap.length - 1) :
         scratch[k + 1] = InitMem[RemapMap.addr_start + k]

\* remap() has gone through all seven operations on its last region
C24_Witness ==
  /\ pc = "remap" /\ ri = n_maps /\ n_maps = 2
  /\ rlog = RemapOrder

\* C25: after remap_munmap() on a range nothing is mapped there: the
\* original's range is unmapped before the new mapping is created, the scratch
\* range is unmapped after the copy-in, and once remap() has returned there is
\* no mapping at the scratch address.
C25_Original ==
  /\ pc = "map_new" => \A p \in MapPages(RemapMap) : vma[p].kind = "none"
  /\ pc = "mprotect" => scratch = << >>
  /\ RemapReturned => scratch = << >>

\* the descriptors repeated calls of pmparser_next() yield from node cur on,
\* at most fuel of them
RECURSIVE Yielded(_, _, _)
Yielded(nodes, cur, fuel) ==
  IF cur = 0 \/ fuel = 0 THEN << >>
  ELSE << nodes[cur].d >> \o Yielded(nodes, nodes[cur].next, fuel - 1)

\* following the next links from node cur reaches NULL within fuel steps
RECURSIVE ReachesNull(_, _, _)
ReachesNull(nodes, cur, fuel) ==
  IF cur = 0 THEN TRUE
  ELSE IF fuel = 0 THEN FALSE
  ELSE ReachesNull(nodes, nodes[cur].next, fuel - 1)

\* C26: for every memory-map text pmparser_parse() returns a list without a
\* cycle that yields exactly one descriptor per line, in file order, and
\* parsing does not end the process.
C26_Original ==
  /\ cause[1] # "_pmparser_split_line"
  /\ (pc = "pmparser_next" /\ current = 1) =>
       /\ ReachesNull(list, 1, Len(list))
       /\ Len(list) = Len(procmaps)
       /\ Yielded(list, 1, Len(list))
            = [k \in 1 .. Len(procmaps) |-> Descriptor(procmaps[k])]

\* positions of the main thread in the code of the driver, from the loop on
DriverPcs ==
  {"loop", "swap_in", "restore", "clock_end", "dup2", "report_times", "return"}

\* positions of the main thread between the two pivots
TargetPcs == {"call", "target", "swap_out"}

\* C27: the two swap_old_stack() of an iteration are a round trip.  At the
\* head of every iteration and after the second pivot the stack pointer and
\* old_stack hold what they held before the first pivot; between the pivots
\* they are exchanged; when run() returns, restore_old_stack() puts the
\* stack pointer back on the stack saved at entry.
C27_PivotRoundTrip ==
  /\ pc \in DriverPcs => (sp = "main_stack" /\ old_stack = "process_stack")
  /\ pc \in TargetPcs => (sp = "process_stack" /\ old_stack = "main_stack")
  /\ (pc = "done" /\ endedBy = "run") => sp = "process_stack"

\* run() has returned 0 after ITERS round trips
C27_Witness ==
  /\ pc = "done" /\ endedBy = "run" /\ status = 0
  /\ i = ITERS /\ calls = ITERS
  /\ sp = "process_stack"

\* C28: while the process runs with a watcher, the watcher's stack is neither
\* the stack the main thread is on nor the one saved in old_stack; from its
\* first statement on the watcher is on uffd_handler_stack, the driver's code
\* runs on main_stack and the target on the process stack.
C28_StacksApart ==
  (wpc # "none" /\ pc # "done") =>
    /\ wsp # sp /\ wsp # old_stack /\ sp # old_stack
    /\ wpc # "start" => wsp = "uffd_handler_stack"
    /\ pc \in TargetPcs => sp = "process_stack"
    /\ pc \notin TargetPcs => sp = "main_stack"

\* the watcher is recording a page while the target sleeps in its fault
C28_Witness ==
  /\ wpc = "record" /\ pc = "target" /\ blockedOn # NoAddr
  /\ wsp = "uffd_handler_stack" /\ sp = "process_stack"

\* the watcher is past its write-protect pass, in its fault loop
InFaultLoop == wpc \in {"poll", "read", "record", "unlock"}

\* C29: handling a fault at address a records the page that contains a and
\* removes the write-protection of that page alone; the protection of no
\* other page changes while the watcher is in its fault loop.
C29_ExactlyThePage ==
  /\ [][(InFaultLoop /\ wp' # wp) =>
          /\ wpc = "unlock"
          /\ KPage(msg) \in wp
          /\ wp' = wp \ {KPage(msg)}]_vars
  /\ [][n_pages' # n_pages =>
          /\ wpc = "record"
          /\ n_pages' = n_pages + 1
          /\ pages'[n_pages'].addr = KPage(msg)
          /\ msg \in PageAddrs(pages'[n_pages'].addr)]_vars

\* a fault in the middle of the first page of a two-page region has been
\* handled: that page is released, its neighbour is still protected
C29_Witness ==
  /\ wpc = "poll" /\ n_pages = 1
  /\ msg = maps[1].addr_start + 1
  /\ pages[1].addr = maps[1].addr_start
  /\ maps[1].addr_start \notin wp
  /\ (maps[1].addr_start + PageSize) \in wp

\* C30: the trap of a page is released only once the page's record is in the
\* log with the content the page has at that moment; the faulting store is
\* applied after that, to a page whose record holds the content from before
\* the store.
C30_RecordBeforeRelease ==
  /\ [][(InFaultLoop /\ wp' # wp) =>
          /\ n_pages >= 1
          /\ pages[n_pages].addr = KPage(msg)
          /\ pages[n_pages].data = PageData(mem, KPage(msg))]_vars
  /\ [][(pend # NoPend /\ pend' = NoPend) =>
          \E k \in 1 .. n_pages :
            /\ pages[k].addr = KPage(pend[1])
            /\ pages[k].data = PageData(mem, KPage(pend[1]))
            /\ mem' = [mem EXCEPT ![pend[1]] = pend[2]]]_vars

\* a store that faulted has been applied and changed the page: the record
\* holds the old content
C30_Witness ==
  /\ pc = "target" /\ pend = NoPend /\ nw >= 1
  /\ \E k \in 1 .. n_pages :
       /\ pages[k].addr = written[Len(written)]
       /\ pages[k].data # PageData(mem, pages[k].addr)
       /\ pages[k].data = PageData(snap, pages[k].addr)

\* C31: whenever the target is being invoked file descriptor 1 points away
\* from the inherited stream; the redirection is installed once, before the
\* first iteration starts, and is undone once, by the dup2() that follows the
\* restore of the last iteration, so the timing report goes to the inherited
\* stream.
C31_StdoutRedirected ==
  /\ [](pc \in {"call", "target", "swap_out"} => stdout = "redirected")
  /\ [](pc = "report_times" => stdout = "inherited")
  /\ [][stdout' # stdout =>
          \/ /\ pc = "redirect_stdout" /\ stdout' = "redirected"
             /\ calls = 0 /\ clock = << >> /\ i = 0
          \/ /\ pc = "dup2" /\ pc' = "report_times" /\ stdout' = "inherited"
             /\ i = iters /\ calls = iters /\ Len(clock) = 4 * iters
             /\ (iters > 0 => r = n_pages)]_vars

\* the last invocation of a run with ITERS iterations is going on, with the
\* redirection still in place
C31_Witness ==
  /\ pc = "target" /\ iters = ITERS /\ calls = ITERS /\ nw >= 1
  /\ stdout = "redirected"

\* addresses of the sections .writeignored and .remap: maps, n_maps, pages,
\* n_pages, uffd_ready, uffd_ready_lock, uffd_handler_stack, main_stack,
\* old_stack and the three raw operations
HarnessAddrs == UNION { PageAddrs(p) : p \in HarnessPages }

\* C32: whatever the layout of the memory map, no address of the harness's
\* storage is inside a region of the region table; no page of it is
\* registered or write-protected, its mapping is the one the process started
\* with, no record of the log is about it, and restore_pages() stores to none
\* of its addresses.
C32_HarnessOutside ==
  /\ [](\A k \in 1 .. n_maps :
         (maps[k].addr_start .. (maps[k].addr_end - 1)) \cap HarnessAddrs = {})
  /\ []((registered \cup wp \cup LogAddrs) \cap HarnessPages = {})
  /\ [](\A p \in HarnessPages : vma[p] = VmaOf(procmaps)[p])
  /\ [][(pc \in {"copy_out", "map_new", "copy_in", "mprotect", "restore"}) =>
          (\A a \in HarnessAddrs : mem'[a] = mem[a])]_vars

\* on a layout whose second region is writable anonymous memory, with the
\* stack region right below .writeignored in the table, the pages are
\* write-protected, a store has been recorded and restored
C32_Witness ==
  /\ procmaps[2].perm = PermRW
  /\ pc = "clock_end" /\ n_pages > 0 /\ r = n_pages
  /\ \E k \in 1 .. n_maps : maps[k].addr_end = WRITE_IGNORED_ADDR
  /\ wp # {} /\ wp \cap HarnessPages = {}

\* the descriptors of the lines of the memory map that pass the filter of
\* load_maps(), in the order of the lines
MonitoredLines ==
  SelectSeq([k \in 1 .. Len(procmaps) |-> Descriptor(procmaps[k])], Monitored)

\* C33: when load_maps() has returned, the region table holds the regions of
\* the memory map that no exclusion rule matches, each of them once and in
\* the order of the map.
C33_Original ==
  (pc = "remap" /\ procmaps # << >>) => maps = MonitoredLines

\* every page of the log has its recorded content
Restored == \A k \in 1 .. n_pages : PageData(mem, pages[k].addr) = pages[k].data

\* C34: over the whole run n_pages never decreases, no page address is in
\* the log twice, every record holds the content its page had when it was
\* first write-protected, and restore_pages() returns only when it has gone
\* through every record made so far in the run, leaving each recorded page
\* with its recorded content.
C34_LogForTheRun ==
  /\ [][n_pages' >= n_pages]_vars
  /\ [](\A j, k \in 1 .. n_pages : pages[j].addr = pages[k].addr => j = k)
  /\ [](\A k \in 1 .. n_pages :
         /\ pages[k].addr \in DOMAIN armed
         /\ pages[k].data = armed[pages[k].addr])
  /\ [][(pc = "restore" /\ pc' = "clock_end") => (r = n_pages /\ Restored)]_vars

\* the restore of the second iteration has gone through two records, one of
\* them made in the first iteration, and the target changed both pages
C34_Witness ==
  /\ pc = "clock_end" /\ i = 1 /\ n_pages = 2 /\ r = n_pages
  /\ Len(written) = 1 /\ written[1] = pages[2].addr
  /\ Restored
  /\ \A k \in 1 .. n_pages : pages[k].data = armed[pages[k].addr]

====
